---- MODULE Spec2Model ----
(***************************************************************************)
(* Model of the drug-target affinity training pipeline of                  *)
(* src/code/dta_cross.py: the early-stopping controller, the checkpoint    *)
(* save/load pair, the dataset loader, the weighted loss, one training     *)
(* step of train_model, and the epoch loop of the __main__ driver.         *)
(*                                                                         *)
(* Units.  Losses handled by save_checkpoint and the driver are integers   *)
(* counting 1e-5, so that the "{loss:.4f}" of the checkpoint file name is  *)
(* a real (lossy) rounding.  Losses handed to the early-stopping harness   *)
(* count tenths (10 is 1.0); the controller only compares them.            *)
(* Model and optimizer state are version numbers: every optimizer step     *)
(* produces a new version.                                                 *)
(***************************************************************************)
EXTENDS Integers, Naturals, Sequences, FiniteSets, TLC

VARIABLES
    \* ---- EarlyStopping object (dta_cross.py:216-251)
    patience, best_loss, counter, early_stop,
    \* ---- file system
    dirs,          \* set of directories that exist
    best_file,     \* <<>> or <<bundle>>: content of best_model.pt
    ckpt_files,    \* function: per-epoch checkpoint file name -> bundle
    log,           \* lines of training_log.txt
    exports,       \* number of times test_results.csv has been written
    plots,         \* scatter plots written (epoch numbers)
    \* ---- driver / harness
    pc, epoch, model_state, optim_state, test_loss, raised,
    hist,          \* validation losses handed to the controller so far
    events,        \* what the driver has done so far: <<step, epoch>>
    \* ---- load_dataset (dta_cross.py:123-134)
    rows, row_i, smiles_strs, graphs, sequences, affinities,
    \* ---- smiles_to_graph (dta_cross.py:25-56)
    g_mol,         \* the molecule Chem.MolFromSmiles returned: atoms and bonds
    g_data,        \* the Data object returned, or None
    \* ---- WeightedMSELoss (dta_cross.py:294-301)
    l_preds, l_targets, l_weight, l_result,
    \* ---- one batch of train_model (dta_cross.py:143-156)
    t_nseq, t_nmol, grads, t_before,
    \* ---- save_checkpoint / load_checkpoint round trip
    saved, loaded

vars == << patience, best_loss, counter, early_stop,
           dirs, best_file, ckpt_files, log, exports, plots,
           pc, epoch, model_state, optim_state, test_loss, raised,
           hist, events,
           rows, row_i, smiles_strs, graphs, sequences, affinities,
           g_mol, g_data,
           l_preds, l_targets, l_weight, l_result,
           t_nseq, t_nmol, grads, t_before,
           saved, loaded >>

esVars     == << patience, best_loss, counter, early_stop >>
fsVars     == << dirs, best_file, ckpt_files, log, exports, plots >>
loaderVars == << rows, row_i, smiles_strs, graphs, sequences, affinities,
                 g_mol, g_data >>
lossVars   == << l_preds, l_targets, l_weight, l_result >>
trainVars  == << t_nseq, t_nmol, grads, t_before >>
rtVars     == << saved, loaded >>

(***************************************************************************)
(* Bounds                                                                  *)
(***************************************************************************)
MaxPatience == 3      \* harness: patience ranges over 1..MaxPatience
MaxCalls    == 5      \* harness: controller calls per run
MaxValLoss  == 12     \* harness: validation losses 5..MaxValLoss (tenths)
MaxTestLoss == 2      \* driver: test losses 1e-4 * (1..MaxTestLoss)
MaxRows     == 2      \* loader: rows of the input file
MaxLossBatch == 3     \* weighted loss: examples per batch
MaxTarget   == 10     \* weighted loss: largest affinity / prediction
MaxBatch    == 4      \* training step: sequences / molecules per batch
MaxSteps    == 8      \* training step: optimizer steps per run
MaxSaves    == 2      \* round trip: checkpoints saved per run
MaxEpochRT  == 1      \* round trip: epochs 0..MaxEpochRT
MaxLossRT   == 6      \* round trip: losses 0..MaxLossRT (1e-5)
MaxStateRT  == 1      \* round trip: model / optimizer versions 0..MaxStateRT
MaxAtoms    == 4      \* graph construction: atoms per molecule

(***************************************************************************)
(* Program constants                                                       *)
(***************************************************************************)
INF            == 1000000   \* float('inf'): above every loss of the model
DefaultPatience == 5        \* EarlyStopping(patience=5, ...) in the driver
epochs         == 10
start_epoch    == -1

CkptDir      == "E:/AIDD_project/checkpoints"
EarlyStopDir == "E:/AIDD_project/checkpoints/early_stop"

\* The file systems a run can start from: a directory exists only if its
\* parent does.
InitialDirs == { {}, {CkptDir}, {CkptDir, EarlyStopDir} }

ValLosses  == 5 .. MaxValLoss
TestLosses == { 10 * k : k \in 1 .. MaxTestLoss }

(***************************************************************************)
(* The bundle torch.save writes: {'epoch', 'model_state_dict',             *)
(* 'optimizer_state_dict', 'loss'}.                                        *)
(***************************************************************************)
Bundle(e, m, o, l) == [epoch |-> e, model_state_dict |-> m,
                       optimizer_state_dict |-> o, loss |-> l]

(***************************************************************************)
(* EarlyStopping.__init__ and EarlyStopping.__call__                       *)
(***************************************************************************)
ESInit(p) ==
    /\ patience = p
    /\ best_loss = INF
    /\ counter = 0
    /\ early_stop = FALSE

ImprovedOrEqual(val_loss, best) == val_loss <= best

ImprovedBeforeStop(val_loss, best) == ~early_stop /\ val_loss < best

\* val_loss < self.best_loss
Improved(val_loss, best) == val_loss < best

PatienceExceeded(c, p) == c > p

PatienceReached(c, p) == c >= p

NextCounterNoReset(improved, c) == IF improved THEN c ELSE c + 1

\* The counter after a call: back to 0 on an improvement, one more otherwise.
NextCounter(improved, c) == IF improved THEN 0 ELSE c + 1

\* The controller's call.  best_loss and counter are assigned before
\* torch.save runs, so they are updated even when the save raises because
\* the directory of checkpoint_path does not exist.  okp is whether the call
\* returned normally.
ESCall(val_loss, e, okp) ==
    IF Improved(val_loss, best_loss)
    THEN /\ best_loss' = val_loss
         /\ counter' = NextCounter(TRUE, counter)
         /\ early_stop' = early_stop
         /\ IF EarlyStopDir \in dirs
            THEN /\ best_file' = << Bundle(e, model_state, optim_state, val_loss) >>
                 /\ okp = TRUE
            ELSE /\ best_file' = best_file
                 /\ okp = FALSE
    ELSE /\ best_loss' = best_loss
         /\ counter' = NextCounter(FALSE, counter)
         /\ early_stop' = (early_stop \/ PatienceReached(NextCounter(FALSE, counter), patience))
         /\ best_file' = best_file
         /\ okp = TRUE

(***************************************************************************)
(* save_checkpoint and load_checkpoint                                     *)
(***************************************************************************)
\* "{loss:.4f}": the loss (in 1e-5) rounded to a multiple of 1e-4.  A loss
\* whose fifth decimal is 5 goes up or down depending on the binary value of
\* the float, so both roundings are possible.
Fmt4(l) ==
    LET q == l \div 10
        r == l % 10
    IN  IF r < 5 THEN {q} ELSE IF r > 5 THEN {q + 1} ELSE {q, q + 1}

\* The file names f"epoch_{epoch + 1}_loss_{loss:.4f}.pt" can take.
CheckpointPaths(e, l) == { << e + 1, f >> : f \in Fmt4(l) }

StoredEpochOfFileName(e) == e + 1

\* The epoch stored in the bundle.
StoredEpoch(e) == e

WriteFile(files, path, bundle) ==
    [ n \in (DOMAIN files) \cup {path} |-> IF n = path THEN bundle ELSE files[n] ]

\* save_checkpoint(model, optimizer, epoch, loss, checkpoint_dir) writing to
\* path, one of CheckpointPaths(e, l).
save_checkpoint(m, o, e, l, checkpoint_dir, path) ==
    /\ dirs' = dirs \cup {checkpoint_dir}
    /\ ckpt_files' = WriteFile(ckpt_files, path, Bundle(StoredEpoch(e), m, o, l))

\* load_checkpoint(model, optimizer, checkpoint_path): the model and the
\* optimizer take the stored state, the stored epoch and loss are returned.
load_checkpoint(path) ==
    LET checkpoint == ckpt_files[path]
    IN  /\ model_state' = checkpoint.model_state_dict
        /\ optim_state' = checkpoint.optimizer_state_dict
        /\ loaded' = [path |-> path, epoch |-> checkpoint.epoch,
                      loss |-> checkpoint.loss]

(***************************************************************************)
(* Values of the variables a specification does not use                    *)
(***************************************************************************)
NoRecord == [path |-> << 0, 0 >>, epoch |-> -1, loss |-> -1]
NoMol    == [natoms |-> 0, bonds |-> << >>]
NoData   == [x |-> << >>, edge_index |-> << >>, edge_attr |-> << >>,
             num_nodes |-> 0, num_edges |-> 0]
NoSave   == [path |-> << 0, 0 >>, epoch |-> -1, loss |-> -1, model |-> -1, optim |-> -1]

FsEmpty ==
    /\ best_file = << >>
    /\ ckpt_files = << >>
    /\ log = << >>
    /\ exports = 0
    /\ plots = {}

LoaderIdle ==
    /\ g_mol = NoMol
    /\ g_data = NoData
    /\ rows = << >>
    /\ row_i = 0
    /\ smiles_strs = << >>
    /\ graphs = << >>
    /\ sequences = << >>
    /\ affinities = << >>

LossIdle ==
    /\ l_preds = << >>
    /\ l_targets = << >>
    /\ l_weight = 0
    /\ l_result = << 0, 0 >>

TrainIdle ==
    /\ t_nseq = 0
    /\ t_nmol = 0
    /\ grads = "none"
    /\ t_before = << 0, 0 >>

RtIdle ==
    /\ saved = NoSave
    /\ loaded = NoRecord

RunIdle ==
    /\ epoch = 0
    /\ model_state = 0
    /\ optim_state = 0
    /\ test_loss = 0
    /\ raised = "none"
    /\ hist = << >>
    /\ events = << >>

(***************************************************************************)
(* The controller driven as the epoch loop drives it                       *)
(* (dta_cross.py:420-423), for any patience and any validation losses.     *)
(***************************************************************************)
\* early_stopping(test_loss, model, optimizer, epoch)
CallES ==
    /\ pc = "es"
    /\ \E okp \in BOOLEAN :
          /\ ESCall(test_loss, epoch, okp)
          /\ pc' = IF okp THEN "check" ELSE "crashed"
          /\ raised' = IF okp THEN raised ELSE "save_failed"
    /\ hist' = Append(hist, test_loss)
    /\ events' = Append(events, << "es", epoch >>)
    /\ UNCHANGED << patience, dirs, ckpt_files, log, exports, plots, epoch,
                    model_state, optim_state, test_loss >>
    /\ UNCHANGED << loaderVars, lossVars, trainVars, rtVars >>

\* What the loop does after the controller returned: leave if the flag is
\* set, otherwise go on to the next epoch while there is one.
AfterCall(stop, e, last) ==
    IF stop THEN [pc |-> "done", epoch |-> e]
    ELSE IF e + 1 < last THEN [pc |-> "train", epoch |-> e + 1]
    ELSE [pc |-> "done", epoch |-> e]

\* One epoch of a run that only feeds the controller: the model is trained
\* and a validation loss comes out.
HarnessEpoch ==
    /\ pc = "train"
    /\ model_state' = model_state + 1
    /\ optim_state' = optim_state + 1
    /\ \E v \in ValLosses : test_loss' = v
    /\ pc' = "es"
    /\ UNCHANGED << esVars, fsVars, epoch, raised, hist, events >>
    /\ UNCHANGED << loaderVars, lossVars, trainVars, rtVars >>

HarnessCheck ==
    /\ pc = "check"
    /\ LET n == AfterCall(early_stop, epoch, MaxCalls)
       IN  /\ pc' = n.pc
           /\ epoch' = n.epoch
    /\ UNCHANGED << esVars, fsVars, model_state, optim_state, test_loss,
                    raised, hist, events >>
    /\ UNCHANGED << loaderVars, lossVars, trainVars, rtVars >>

InitES ==
    /\ \E p \in 1 .. MaxPatience : ESInit(p)
    /\ dirs \in InitialDirs
    /\ FsEmpty /\ RunIdle /\ LoaderIdle /\ LossIdle /\ TrainIdle /\ RtIdle
    /\ pc = "train"

NextES == HarnessEpoch \/ CallES \/ HarnessCheck

SpecES == InitES /\ [][NextES]_vars

(***************************************************************************)
(* The controller called once per epoch by a caller that does not look at  *)
(* the stop flag: calls go on after the flag is set.                       *)
(***************************************************************************)
FreeContinue ==
    /\ pc = "check"
    /\ LET n == AfterCall(FALSE, epoch, MaxCalls)
       IN  /\ pc' = n.pc
           /\ epoch' = n.epoch
    /\ UNCHANGED << esVars, fsVars, model_state, optim_state, test_loss,
                    raised, hist, events >>
    /\ UNCHANGED << loaderVars, lossVars, trainVars, rtVars >>

NextESFree == HarnessEpoch \/ CallES \/ FreeContinue

SpecESFree == InitES /\ [][NextESFree]_vars

(***************************************************************************)
(* The __main__ driver (dta_cross.py:368-423)                              *)
(***************************************************************************)
\* The export of line 399 reads the name `sequences`, which no statement of
\* the module binds (the loader's results are sequences_train and
\* sequences_test): evaluating it raises NameError.
SequencesBound == FALSE

\* The step that follows the scatter plot: the export on the final epoch.
AfterPlot(e) == IF e = epochs - 1 THEN "export" ELSE "log"

StepAfterCheckpointFirst(p) ==
    CASE p = "train"  -> "ckpt"
      [] p = "ckpt"   -> "eval"
      [] p = "eval"   -> "plot"
      [] p = "export" -> "log"
      [] p = "log"    -> "es"

\* Order of the remaining steps of one epoch.
StepAfter(p) ==
    CASE p = "train"  -> "eval"
      [] p = "eval"   -> "plot"
      [] p = "export" -> "log"
      [] p = "log"    -> "ckpt"
      [] p = "ckpt"   -> "es"

\* Lines 368-384: model and optimizer are built, the checkpoint directory
\* is created, the controller is constructed with its default directory.
Setup ==
    /\ pc = "setup"
    /\ dirs' = dirs \cup {CkptDir}
    /\ patience' = DefaultPatience
    /\ best_loss' = INF
    /\ counter' = 0
    /\ early_stop' = FALSE
    /\ epoch' = start_epoch + 1
    /\ pc' = IF start_epoch + 1 < epochs THEN "train" ELSE "done"
    /\ UNCHANGED << best_file, ckpt_files, log, exports, plots, model_state,
                    optim_state, test_loss, raised, hist, events >>
    /\ UNCHANGED << loaderVars, lossVars, trainVars, rtVars >>

\* Line 390: train_model, one pass over the training loader.
TrainPass ==
    /\ pc = "train"
    /\ model_state' = model_state + 1
    /\ optim_state' = optim_state + 1
    /\ events' = Append(events, << "train", epoch >>)
    /\ pc' = StepAfter("train")
    /\ UNCHANGED << esVars, fsVars, epoch, test_loss, raised, hist >>
    /\ UNCHANGED << loaderVars, lossVars, trainVars, rtVars >>

\* Line 391: evaluate_model; it reads the model and returns the test loss.
EvalPass ==
    /\ pc = "eval"
    /\ \E l \in TestLosses : test_loss' = l
    /\ events' = Append(events, << "eval", epoch >>)
    /\ pc' = StepAfter("eval")
    /\ UNCHANGED << esVars, fsVars, epoch, model_state, optim_state, raised, hist >>
    /\ UNCHANGED << loaderVars, lossVars, trainVars, rtVars >>

\* Line 393: plot_affinity_scatter(..., f"affinity_scatter_epoch_{epoch+1}.png")
Plot ==
    /\ pc = "plot"
    /\ plots' = plots \cup {epoch + 1}
    /\ events' = Append(events, << "plot", epoch >>)
    /\ pc' = AfterPlot(epoch)
    /\ UNCHANGED << esVars, dirs, best_file, ckpt_files, log, exports, epoch,
                    model_state, optim_state, test_loss, raised, hist >>
    /\ UNCHANGED << loaderVars, lossVars, trainVars, rtVars >>

\* Lines 396-403: save_predictions(...) on the final epoch.  Its arguments
\* are evaluated first; the second one raises when `sequences` is unbound,
\* and the uncaught exception ends the run.
Export ==
    /\ pc = "export"
    /\ IF SequencesBound
       THEN /\ exports' = exports + 1
            /\ events' = Append(events, << "export", epoch >>)
            /\ pc' = StepAfter("export")
            /\ raised' = raised
       ELSE /\ exports' = exports
            /\ events' = events
            /\ pc' = "crashed"
            /\ raised' = "NameError"
    /\ UNCHANGED << esVars, dirs, best_file, ckpt_files, log, plots, epoch,
                    model_state, optim_state, test_loss, hist >>
    /\ UNCHANGED << loaderVars, lossVars, trainVars, rtVars >>

\* Lines 409-411 and log_file (266-269): one line appended to the log.
LogEpoch ==
    /\ pc = "log"
    /\ \E f \in Fmt4(test_loss) :
          log' = Append(log, [epoch |-> epoch + 1, test_loss |-> f])
    /\ events' = Append(events, << "log", epoch >>)
    /\ pc' = StepAfter("log")
    /\ UNCHANGED << esVars, dirs, best_file, ckpt_files, exports, plots, epoch,
                    model_state, optim_state, test_loss, raised, hist >>
    /\ UNCHANGED << loaderVars, lossVars, trainVars, rtVars >>

\* Line 413: save_checkpoint(model, optimizer, epoch, test_loss, checkpoint_dir)
SaveEpochCheckpoint ==
    /\ pc = "ckpt"
    /\ \E path \in CheckpointPaths(epoch, test_loss) :
          save_checkpoint(model_state, optim_state, epoch, test_loss, CkptDir, path)
    /\ events' = Append(events, << "ckpt", epoch >>)
    /\ pc' = StepAfter("ckpt")
    /\ UNCHANGED << esVars, best_file, log, exports, plots, epoch,
                    model_state, optim_state, test_loss, raised, hist >>
    /\ UNCHANGED << loaderVars, lossVars, trainVars, rtVars >>

\* Lines 421-423 and the loop header of line 388.
CheckStop ==
    /\ pc = "check"
    /\ LET n == AfterCall(early_stop, epoch, epochs)
       IN  /\ pc' = n.pc
           /\ epoch' = n.epoch
    /\ UNCHANGED << esVars, fsVars, model_state, optim_state, test_loss,
                    raised, hist, events >>
    /\ UNCHANGED << loaderVars, lossVars, trainVars, rtVars >>

Init ==
    /\ ESInit(DefaultPatience)
    /\ dirs \in InitialDirs
    /\ FsEmpty /\ RunIdle /\ LoaderIdle /\ LossIdle /\ TrainIdle /\ RtIdle
    /\ pc = "setup"

Next ==
    \/ Setup \/ TrainPass \/ EvalPass \/ Plot \/ Export \/ LogEpoch
    \/ SaveEpochCheckpoint \/ CallES \/ CheckStop

Spec == Init /\ [][Next]_vars

(***************************************************************************)
(* load_dataset (dta_cross.py:123-134)                                     *)
(***************************************************************************)
SmilesPool == {"CCO", "not_a_molecule"}
SeqPool    == {"MKV", "GAL"}
AffPool    == {5, 7}
RowValues  == [iso_smiles : SmilesPool, target_sequence : SeqPool, affinity : AffPool]

None == [mol |-> "None"]

\* Chem.MolFromSmiles(smiles) is None
ParseFails(smiles) == smiles = "not_a_molecule"

\* smiles_to_graph: None for a SMILES that does not parse, else the graph of
\* the molecule.
smiles_to_graph(smiles) == IF ParseFails(smiles) THEN None ELSE [mol |-> smiles]

\* The SMILES list after the loop body has seen row: line 127 appends
\* before the graph is built and tested.
SmilesAfterRow(strs, row) == Append(strs, row.iso_smiles)

\* One iteration of the loop over data.iterrows().
LoadRow ==
    /\ pc = "rows"
    /\ row_i < Len(rows)
    /\ LET row   == rows[row_i + 1]
           graph == smiles_to_graph(row.iso_smiles)
       IN  /\ smiles_strs' = SmilesAfterRow(smiles_strs, row)
           /\ IF graph = None
              THEN UNCHANGED << graphs, sequences, affinities >>
              ELSE /\ graphs' = Append(graphs, graph)
                   /\ sequences' = Append(sequences, row.target_sequence)
                   /\ affinities' = Append(affinities, row.affinity)
    /\ row_i' = row_i + 1
    /\ UNCHANGED << rows, pc, g_mol, g_data >>
    /\ UNCHANGED << esVars, fsVars, epoch, model_state, optim_state, test_loss,
                    raised, hist, events, lossVars, trainVars, rtVars >>

\* Line 134: the four collections are returned.
LoadReturn ==
    /\ pc = "rows"
    /\ row_i = Len(rows)
    /\ pc' = "returned"
    /\ UNCHANGED << esVars, fsVars, epoch, model_state, optim_state, test_loss,
                    raised, hist, events, loaderVars, lossVars, trainVars, rtVars >>

SeqsUpTo(S, n) == UNION { [1 .. k -> S] : k \in 0 .. n }

InitLoader ==
    /\ ESInit(DefaultPatience)
    /\ dirs = {}
    /\ FsEmpty /\ RunIdle /\ LossIdle /\ TrainIdle /\ RtIdle
    /\ rows \in SeqsUpTo(RowValues, MaxRows)
    /\ g_mol = NoMol
    /\ g_data = NoData
    /\ row_i = 0
    /\ smiles_strs = << >>
    /\ graphs = << >>
    /\ sequences = << >>
    /\ affinities = << >>
    /\ pc = "rows"

NextLoader == LoadRow \/ LoadReturn

SpecLoader == InitLoader /\ [][NextLoader]_vars

(***************************************************************************)
(* smiles_to_graph (dta_cross.py:25-56)                                    *)
(*                                                                         *)
(* A molecule is what Chem.MolFromSmiles hands back: atoms 0..natoms-1 in  *)
(* the order of the SMILES string and the bonds in the order the parser    *)
(* created them.  The molecules drawn are unbranched carbon chains with    *)
(* ring closures ("C1C=C1", "C1CC=C1", "C1CC1C", ...).  The bond from atom *)
(* i-1 to atom i is created when atom i is read.  The bond of a ring       *)
(* closure joins the atom i at which the closing digit stands to the       *)
(* earlier atom that opened the ring; the parser may create it when the    *)
(* closing digit is read (after the chain bond of i, before that of i+1)   *)
(* or when it closes the rings at the end of the string, and both orders   *)
(* are drawn.  Either way "C1C=C1" has the bonds 0-1, 1=2, 2-0 in that     *)
(* order.  Bond types are 1 (single) and 2 (double); none is aromatic or   *)
(* directional.                                                            *)
(***************************************************************************)
BondTypes == {1, 2}

ChainBond(i, t)      == [begin |-> i - 1, end |-> i, type |-> t]
ClosureBond(i, j, t) == [begin |-> i, end |-> j, type |-> t]

\* << j, i >>: a ring opened at atom j and closed at atom i
ClosurePairs(n) ==
    { q \in (0 .. (n - 1)) \X (0 .. (n - 1)) : q[1] + 2 <= q[2] }

Reverse(q) == [ k \in 1 .. Len(q) |-> q[Len(q) + 1 - k] ]

RECURSIVE Closures(_, _, _)
\* the ring closures read at atom i whose partner is j or a later atom
Closures(i, j, r) ==
    IF j > i - 2 THEN << >>
    ELSE (IF r[<< j, i >>] = 0 THEN << >> ELSE << ClosureBond(i, j, r[<< j, i >>]) >>)
         \o Closures(i, j + 1, r)

ClosuresAt(i, r, rev) ==
    IF rev THEN Reverse(Closures(i, 0, r)) ELSE Closures(i, 0, r)

RECURSIVE BondList(_, _, _, _, _, _)
\* the bonds created from atom i on; late: ring bonds are created at the
\* end of the string
BondList(i, n, c, r, rev, late) ==
    IF i > n - 1 THEN << >>
    ELSE << ChainBond(i, c[i]) >>
         \o (IF late THEN << >> ELSE ClosuresAt(i, r, rev))
         \o BondList(i + 1, n, c, r, rev, late)

RECURSIVE RingBonds(_, _, _, _)
RingBonds(i, n, r, rev) ==
    IF i > n - 1 THEN << >>
    ELSE ClosuresAt(i, r, rev) \o RingBonds(i + 1, n, r, rev)

Molecules ==
    UNION { { [natoms |-> n,
               bonds  |-> BondList(1, n, c, r, rev, late)
                          \o (IF late THEN RingBonds(1, n, r, rev) ELSE << >>)] :
                c \in [1 .. (n - 1) -> BondTypes],
                r \in [ClosurePairs(n) -> {0} \cup BondTypes],
                rev \in BOOLEAN, late \in BOOLEAN }
            : n \in 1 .. MaxAtoms }

RECURSIVE BondOrderSum(_, _)
BondOrderSum(bonds, a) ==
    IF bonds = << >> THEN 0
    ELSE (IF a \in {Head(bonds).begin, Head(bonds).end} THEN Head(bonds).type ELSE 0)
         + BondOrderSum(Tail(bonds), a)

\* Chem.MolFromSmiles returns None: a carbon with more than four bonds'
\* worth of valence does not pass sanitization.
MolIsNone(mol) == \E a \in 0 .. (mol.natoms - 1) : BondOrderSum(mol.bonds, a) > 4

\* [bond_type, int(bond_dir), int(aromatic)]
EdgeFeature(bond) == << bond.type, 0, 0 >>

\* edge_features: one row per bond, in the order of mol.GetBonds()
EdgeFeatures(bonds) == [ k \in 1 .. Len(bonds) |-> EdgeFeature(bonds[k]) ]

InSeq(x, q) == \E k \in 1 .. Len(q) : q[k] = x

\* G.add_edge(u, v) on the adjacency of an nx.Graph: each endpoint is
\* appended to the other's neighbours unless the edge is already there.
AddEdge(adj, u, v) ==
    IF InSeq(v, adj[u]) THEN adj
    ELSE [ a \in DOMAIN adj |->
              IF a = u THEN Append(adj[a], v)
              ELSE IF a = v THEN Append(adj[a], u)
              ELSE adj[a] ]

RECURSIVE AddBonds(_, _)
AddBonds(adj, bonds) ==
    IF bonds = << >> THEN adj
    ELSE AddBonds(AddEdge(adj, Head(bonds).begin, Head(bonds).end), Tail(bonds))

\* The adjacency of G after both loops: the atoms are added as nodes in
\* index order, then one edge per bond.
GraphOf(mol) == AddBonds([a \in 0 .. (mol.natoms - 1) |-> << >>], mol.bonds)

RECURSIVE EdgesOfNode(_, _, _)
\* the edges G.edges yields while it visits node u: one per neighbour that
\* has not been visited
EdgesOfNode(u, nbrs, seen) ==
    IF nbrs = << >> THEN << >>
    ELSE (IF Head(nbrs) \in seen THEN << >> ELSE << << u, Head(nbrs) >> >>)
         \o EdgesOfNode(u, Tail(nbrs), seen)

RECURSIVE EdgesFrom(_, _, _)
\* list(G.edges): the nodes are visited in insertion order, the neighbours
\* of each in insertion order
EdgesFrom(adj, u, n) ==
    IF u > n - 1 THEN << >>
    ELSE EdgesOfNode(u, adj[u], 0 .. (u - 1)) \o EdgesFrom(adj, u + 1, n)

\* edge_index, as the list of its columns
EdgeIndex(adj, mol) == EdgesFrom(adj, 0, mol.natoms)

\* node feature of atom a: atomic number and degree (hybridization and
\* chirality are the toolkit's and are left out)
NodeFeature(adj, a) == << 6, Len(adj[a]) >>

\* The Data object of line 56 for a molecule that parsed.
MolToData(mol) ==
    LET G == GraphOf(mol)
    IN  [x          |-> [ k \in 1 .. mol.natoms |-> NodeFeature(G, k - 1) ],
         edge_index |-> EdgeIndex(G, mol),
         edge_attr  |-> EdgeFeatures(mol.bonds),
         num_nodes  |-> mol.natoms,
         num_edges  |-> Len(EdgesFrom(G, 0, mol.natoms))]

\* smiles_to_graph(smiles), smiles being the string g_mol was parsed from
BuildGraph ==
    /\ pc = "smiles"
    /\ g_data' = IF MolIsNone(g_mol) THEN None ELSE MolToData(g_mol)
    /\ pc' = "built"
    /\ UNCHANGED << g_mol, rows, row_i, smiles_strs, graphs, sequences, affinities >>
    /\ UNCHANGED << esVars, fsVars, epoch, model_state, optim_state, test_loss,
                    raised, hist, events, lossVars, trainVars, rtVars >>

InitGraph ==
    /\ ESInit(DefaultPatience)
    /\ dirs = {}
    /\ FsEmpty /\ RunIdle /\ LossIdle /\ TrainIdle /\ RtIdle
    /\ rows = << >>
    /\ row_i = 0
    /\ smiles_strs = << >>
    /\ graphs = << >>
    /\ sequences = << >>
    /\ affinities = << >>
    /\ g_mol \in Molecules
    /\ g_data = NoData
    /\ pc = "smiles"

NextGraph == BuildGraph

SpecGraph == InitGraph /\ [][NextGraph]_vars

(***************************************************************************)
(* WeightedMSELoss (dta_cross.py:294-301)                                  *)
(***************************************************************************)
WeightDefault == 10

LossValues == {0, 5, 6, MaxTarget}
Weights    == {1, 2, WeightDefault}

WeightOfInclusive(t, w) == IF t >= 5 THEN w ELSE 1

\* torch.where(targets > 5, self.weight, 1.0), one element
WeightOf(t, w) == IF t > 5 THEN w ELSE 1

RECURSIVE SeqSum(_)
SeqSum(q) == IF q = << >> THEN 0 ELSE Head(q) + SeqSum(Tail(q))

\* forward(preds, targets): the mean, kept as the pair <<sum, count>> of the
\* fraction sum / count.
WeightedMSELoss(preds, targets, w) ==
    LET weights  == [i \in 1 .. Len(targets) |-> WeightOf(targets[i], w)]
        weighted == [i \in 1 .. Len(targets) |->
                        weights[i] * (preds[i] - targets[i]) * (preds[i] - targets[i])]
    IN  << SeqSum(weighted), Len(weighted) >>

ApplyLoss ==
    /\ pc = "input"
    /\ l_result' = WeightedMSELoss(l_preds, l_targets, l_weight)
    /\ pc' = "computed"
    /\ UNCHANGED << l_preds, l_targets, l_weight >>
    /\ UNCHANGED << esVars, fsVars, epoch, model_state, optim_state, test_loss,
                    raised, hist, events, loaderVars, trainVars, rtVars >>

InitLoss ==
    /\ ESInit(DefaultPatience)
    /\ dirs = {}
    /\ FsEmpty /\ RunIdle /\ LoaderIdle /\ TrainIdle /\ RtIdle
    /\ \E n \in 1 .. MaxLossBatch :
          /\ l_preds \in [1 .. n -> LossValues]
          /\ l_targets \in [1 .. n -> LossValues]
    /\ l_weight \in Weights
    /\ l_result = << 0, 0 >>
    /\ pc = "input"

NextLoss == ApplyLoss

SpecLoss == InitLoss /\ [][NextLoss]_vars

(***************************************************************************)
(* One batch of train_model (dta_cross.py:143-156) with the forward pass   *)
(* of AffinityPredictionModel (84-98)                                      *)
(***************************************************************************)
\* protein_embedding.size(0): one row per sequence handed to the tokenizer
ProteinRows(nseq) == nseq
\* drug_embedding.size(0): global_mean_pool gives one row per molecule
DrugRows(nmol) == nmol

NoBatchSizeCheck(nseq, nmol) == FALSE

\* The assert of lines 97-98 fails.
BatchSizeMismatch(nseq, nmol) == ProteinRows(nseq) # DrugRows(nmol)

\* The loop body for one batch: zero_grad, forward, and, if the forward pass
\* returns, loss, backward and optimizer.step.  An AssertionError is not
\* caught and ends the run.
TrainBatch ==
    /\ pc = "batch"
    /\ model_state < MaxSteps
    /\ \E nseq \in 1 .. MaxBatch, nmol \in 1 .. MaxBatch :
          /\ t_nseq' = nseq
          /\ t_nmol' = nmol
          /\ t_before' = << model_state, optim_state >>
          /\ IF BatchSizeMismatch(nseq, nmol)
             THEN /\ grads' = "zeroed"
                  /\ raised' = "AssertionError"
                  /\ pc' = "crashed"
                  /\ UNCHANGED << model_state, optim_state >>
             ELSE /\ grads' = "computed"
                  /\ model_state' = model_state + 1
                  /\ optim_state' = optim_state + 1
                  /\ UNCHANGED << raised, pc >>
    /\ UNCHANGED << esVars, fsVars, epoch, test_loss, hist, events,
                    loaderVars, lossVars, rtVars >>

\* Line 160: the loader is exhausted and the pass returns.
TrainReturn ==
    /\ pc = "batch"
    /\ pc' = "returned"
    /\ UNCHANGED << esVars, fsVars, epoch, model_state, optim_state, test_loss,
                    raised, hist, events, loaderVars, lossVars, trainVars, rtVars >>

InitTrain ==
    /\ ESInit(DefaultPatience)
    /\ dirs = {}
    /\ FsEmpty /\ RunIdle /\ LoaderIdle /\ LossIdle /\ TrainIdle /\ RtIdle
    /\ pc = "batch"

NextTrain == TrainBatch \/ TrainReturn

SpecTrain == InitTrain /\ [][NextTrain]_vars

(***************************************************************************)
(* save_checkpoint followed by load_checkpoint                             *)
(***************************************************************************)
\* save_checkpoint(model, optimizer, epoch, loss) with the default directory
RTSave ==
    /\ pc \in {"idle", "loaded"}
    /\ Len(events) < MaxSaves
    /\ \E e \in 0 .. MaxEpochRT, l \in 0 .. MaxLossRT :
          \E path \in CheckpointPaths(e, l) :
             /\ save_checkpoint(model_state, optim_state, e, l, "checkpoints", path)
             /\ saved' = [path |-> path, epoch |-> e, loss |-> l,
                          model |-> model_state, optim |-> optim_state]
             /\ events' = Append(events, << "save", e >>)
    /\ pc' = "saved"
    /\ UNCHANGED << esVars, best_file, log, exports, plots, epoch, model_state,
                    optim_state, test_loss, raised, hist, loaded >>
    /\ UNCHANGED << loaderVars, lossVars, trainVars >>

\* Freshly initialised model and optimizer objects.
RTFresh ==
    /\ pc = "saved"
    /\ model_state' \in 0 .. MaxStateRT
    /\ optim_state' \in 0 .. MaxStateRT
    /\ pc' = "fresh"
    /\ UNCHANGED << esVars, fsVars, epoch, test_loss, raised, hist, events, rtVars >>
    /\ UNCHANGED << loaderVars, lossVars, trainVars >>

\* load_checkpoint(model, optimizer, checkpoint_path) of a file that exists
RTLoad ==
    /\ pc = "fresh"
    /\ \E path \in DOMAIN ckpt_files : load_checkpoint(path)
    /\ pc' = "loaded"
    /\ UNCHANGED << esVars, fsVars, epoch, test_loss, raised, hist, events, saved >>
    /\ UNCHANGED << loaderVars, lossVars, trainVars >>

InitRT ==
    /\ ESInit(DefaultPatience)
    /\ dirs \in {{}, {"checkpoints"}}
    /\ FsEmpty /\ LoaderIdle /\ LossIdle /\ TrainIdle /\ RtIdle
    /\ epoch = 0
    /\ model_state \in 0 .. MaxStateRT
    /\ optim_state \in 0 .. MaxStateRT
    /\ test_loss = 0
    /\ raised = "none"
    /\ hist = << >>
    /\ events = << >>
    /\ pc = "idle"

NextRT == RTSave \/ RTFresh \/ RTLoad

SpecRT == InitRT /\ [][NextRT]_vars

(***************************************************************************)
(* Properties                                                              *)
(***************************************************************************)
IsPrefix(a, b) == Len(a) <= Len(b) /\ SubSeq(b, 1, Len(a)) = a

BestFileLoss == IF best_file = << >> THEN -1 ELSE best_file[1].loss

\* ---- C1 (SpecES) -------------------------------------------------------
C1Example ==
    patience = 2 =>
       /\ hist = << 10 >> => ~early_stop
       /\ hist = << 10, 11 >> => ~early_stop
       /\ IsPrefix(<< 10, 11, 12 >>, hist) =>
             /\ early_stop
             /\ Len(hist) = 3
             /\ BestFileLoss = 10

C1Step ==
    (~early_stop /\ early_stop') <=> (hist' # hist /\ counter' = patience)

\* C1: with patience 2 and validation losses 1.0, 1.1, 1.2, 0.9 fed by the
\* epoch loop, the stop flag is false after the first and the second value
\* and true after the third, the loop then leaves (0.9 is never processed)
\* and best_model.pt holds loss 1.0; for every patience p the flag is set
\* exactly by the call that makes the non-improvement counter reach p.
C1_EarlyStoppingTrigger == [][C1Example' /\ C1Step]_vars

C1_Witness ==
    /\ patience = 2
    /\ hist = << 10, 11, 12 >>
    /\ early_stop
    /\ BestFileLoss = 10
    /\ pc = "done"

\* ---- C2 (SpecES) -------------------------------------------------------
\* Calls that strictly improved on every earlier loss.
ImprovingCalls(h) ==
    { i \in 1 .. Len(h) : \A j \in 1 .. (i - 1) : h[i] < h[j] }

SetMax(S) == CHOOSE x \in S : \A y \in S : y <= x

\* Number of calls made since the last strict improvement.
NonImprovingSince(h) ==
    IF ImprovingCalls(h) = {} THEN Len(h) ELSE Len(h) - SetMax(ImprovingCalls(h))

\* C2: with patience 2 and losses 1.0, 1.1, 0.5, 0.6, 0.7 the flag is still
\* false after 0.6 (the improvement at 0.5 reset the counter) and true after
\* 0.7; in general the counter is the number of consecutive non-improving
\* calls since the last strict improvement, and the flag is set exactly when
\* that number has reached patience.
C2_ResetOnImprovement ==
    /\ (patience = 2 /\ hist = << 10, 11, 5, 6 >>) => ~early_stop
    /\ (patience = 2 /\ hist = << 10, 11, 5, 6, 7 >>) => early_stop
    /\ counter = NonImprovingSince(hist)
    /\ early_stop <=> (NonImprovingSince(hist) >= patience)

C2_Witness ==
    /\ patience = 2
    /\ hist = << 10, 11, 5, 6, 7 >>
    /\ early_stop
    /\ counter = 2
    /\ BestFileLoss = 5

\* ---- C3 (SpecLoader) ---------------------------------------------------
AcceptedRows == SelectSeq(rows, LAMBDA r : ~ParseFails(r.iso_smiles))

\* C3: load_dataset leaves every row whose SMILES fails to parse out of all
\* four returned collections: they have equal length and position k of each
\* of them belongs to the k-th accepted row.
C3_LoaderAlignment ==
    pc = "returned" =>
       /\ Len(smiles_strs) = Len(AcceptedRows)
       /\ Len(graphs) = Len(AcceptedRows)
       /\ Len(sequences) = Len(AcceptedRows)
       /\ Len(affinities) = Len(AcceptedRows)
       /\ \A k \in 1 .. Len(AcceptedRows) :
             /\ k <= Len(smiles_strs) /\ smiles_strs[k] = AcceptedRows[k].iso_smiles
             /\ graphs[k] = [mol |-> AcceptedRows[k].iso_smiles]
             /\ sequences[k] = AcceptedRows[k].target_sequence
             /\ affinities[k] = AcceptedRows[k].affinity

\* ---- C4 (Spec) ---------------------------------------------------------
Occurrences(step, e) ==
    Cardinality({ i \in 1 .. Len(events) : events[i] = << step, e >> })

LogLines(e) == Cardinality({ i \in 1 .. Len(log) : log[i].epoch = e + 1 })

CheckpointFiles(e) == Cardinality({ n \in DOMAIN ckpt_files : n[1] = e + 1 })

RunOver == pc \in {"done", "crashed"}

\* Epoch e was executed and the driver is through with it.
EpochOver(e) == Occurrences("train", e) = 1 /\ (epoch > e \/ RunOver)

\* C4: for every epoch the loop executes, the final one (index 9) included,
\* exactly one per-epoch checkpoint is written and exactly one line is
\* appended to the training log.
C4_CheckpointAndLogEveryEpoch ==
    \A e \in 0 .. (epochs - 1) :
       /\ Occurrences("ckpt", e) <= 1
       /\ LogLines(e) <= 1
       /\ EpochOver(e) =>
             /\ Occurrences("ckpt", e) = 1
             /\ CheckpointFiles(e) = 1
             /\ LogLines(e) = 1

\* ---- C5 (Spec) ---------------------------------------------------------
\* C5: test_results.csv is written exactly once in a run, at the end of the
\* final epoch (index epochs - 1 = 9) and in no earlier epoch.
C5_ExportOnceAtFinalEpoch ==
    /\ exports <= 1
    /\ exports = 1 => epoch = epochs - 1
    /\ EpochOver(epochs - 1) => exports = 1

\* ---- C6 (Spec) ---------------------------------------------------------
Position(step, e) ==
    IF Occurrences(step, e) = 0 THEN 0
    ELSE CHOOSE i \in 1 .. Len(events) : events[i] = << step, e >>

\* C6: the checkpoint write and the log write of epoch N come after the
\* training pass and the evaluation pass of epoch N and before any step of
\* epoch N+1; steps of different epochs never interleave.
C6_DriverOrdering ==
    /\ \A i \in 1 .. (Len(events) - 1) : events[i][2] <= events[i + 1][2]
    /\ \A e \in 0 .. (epochs - 1) :
          /\ \A w \in {"ckpt", "log"} :
                Occurrences(w, e) > 0 =>
                   /\ Occurrences("train", e) = 1
                   /\ Occurrences("eval", e) = 1
                   /\ Position("train", e) < Position(w, e)
                   /\ Position("eval", e) < Position(w, e)
          /\ (e > 0 /\ \E i \in 1 .. Len(events) : events[i][2] = e) =>
                /\ Occurrences("ckpt", e - 1) = 1
                /\ Occurrences("log", e - 1) = 1

C6_Witness ==
    /\ epoch = 1
    /\ pc = "eval"
    /\ Occurrences("ckpt", 0) = 1
    /\ Occurrences("log", 0) = 1
    /\ Occurrences("train", 1) = 1

\* ---- C7 (Spec) ---------------------------------------------------------
C7State ==
    /\ epoch <= epochs - 1
    /\ \A e \in 0 .. (epochs - 1) :
          /\ Occurrences("es", e) <= 1
          /\ Occurrences("es", e) = 1 => Occurrences("ckpt", e) = 1
          /\ EpochOver(e) => Occurrences("es", e) = 1
    /\ (pc = "done" /\ ~early_stop) => epoch = epochs - 1

\* The flag is read only by the check that follows the controller's call,
\* and once it is set nothing more is trained, evaluated, saved or called.
C7Step ==
    /\ (pc = "check" /\ pc' = "done" /\ epoch < epochs - 1) => early_stop
    /\ (pc # "check" /\ pc' = "done") => pc = "setup"
    /\ early_stop => (events' = events /\ ckpt_files' = ckpt_files /\ hist' = hist)
    /\ (early_stop /\ pc = "check") => pc' = "done"

\* C7: the controller is invoked once after every epoch, the stop flag is
\* checked only at that epoch boundary, once a call has set it no further
\* training pass, evaluation pass, checkpoint write or controller call
\* occurs, and otherwise the loop ends after epoch index 9 (at most 10
\* epochs).
C7_StoppedIsTerminal == [][C7State' /\ C7Step]_vars

\* ---- C8 (SpecTrain) ----------------------------------------------------
\* C8: a batch whose number of protein sequences differs from its number of
\* molecules (3 against 4, say) raises the batch-mismatch assertion and no
\* parameter update happens: model parameters and optimizer state after the
\* failure are those before the batch.
C8_MismatchRaisesWithoutUpdate ==
    /\ t_nseq # t_nmol =>
          /\ raised = "AssertionError"
          /\ pc = "crashed"
          /\ << model_state, optim_state >> = t_before
    /\ raised = "AssertionError" => t_nseq # t_nmol

C8_Witness ==
    /\ t_nseq = 3
    /\ t_nmol = 4
    /\ raised = "AssertionError"
    /\ model_state = 2
    /\ t_before = << 2, 2 >>

\* ---- C9 (SpecRT) -------------------------------------------------------
\* C9: save_checkpoint followed by load_checkpoint of the written file into
\* fresh model and optimizer objects returns the saved epoch and loss and
\* restores the saved model and optimizer state; the stored epoch is the
\* epoch passed in while the file name carries epoch + 1.
C9_CheckpointRoundTrip ==
    (pc = "loaded" /\ loaded.path = saved.path) =>
       /\ loaded.epoch = saved.epoch
       /\ loaded.loss = saved.loss
       /\ model_state = saved.model
       /\ optim_state = saved.optim
       /\ ckpt_files[saved.path].epoch = saved.epoch
       /\ saved.path[1] = saved.epoch + 1

C9_Witness ==
    /\ pc = "loaded"
    /\ loaded.path = saved.path
    /\ saved.epoch = 1
    /\ saved.loss = 6
    /\ saved.path = << 2, 1 >>
    /\ saved.model = 1
    /\ model_state = 1
    /\ Len(events) = 2

\* ---- C10 (SpecLoss) ----------------------------------------------------
RECURSIVE WeightedSquares(_, _, _, _)
\* sum over i in 1..n of w_i * (p_i - t_i)^2, w_i = w if t_i > 5 and 1 otherwise
WeightedSquares(p, t, w, n) ==
    IF n = 0 THEN 0
    ELSE WeightedSquares(p, t, w, n - 1)
         + (IF t[n] > 5 THEN w ELSE 1) * (p[n] - t[n]) * (p[n] - t[n])

\* C10: the weighted loss is the mean over the batch of w_i * (p_i - t_i)^2
\* with w_i = weight if t_i > 5 (strictly) and 1 otherwise; it is 0 whenever
\* predictions equal targets, for any weight, and 500 for targets [0, 10],
\* predictions [0, 0] and weight 10.
C10_WeightedLoss ==
    pc = "computed" =>
       /\ l_result[2] = Len(l_targets)
       /\ l_result[1] = WeightedSquares(l_preds, l_targets, l_weight, Len(l_targets))
       /\ l_preds = l_targets => l_result[1] = 0
       /\ (l_targets = << 0, 10 >> /\ l_preds = << 0, 0 >> /\ l_weight = 10) =>
             l_result[1] = 500 * l_result[2]

C10_Witness ==
    /\ pc = "computed"
    /\ l_targets = << 0, 10 >>
    /\ l_preds = << 0, 0 >>
    /\ l_weight = 10
    /\ l_result = << 1000, 2 >>

\* ---- C11 (SpecESFree) --------------------------------------------------
C11Step ==
    IF hist' = hist
    THEN best_loss' = best_loss /\ counter' = counter /\ best_file' = best_file
    ELSE LET v == hist'[Len(hist')]
         IN  /\ v >= best_loss =>
                   /\ best_loss' = best_loss
                   /\ best_file' = best_file
                   /\ counter' = counter + 1
             /\ v < best_loss =>
                   /\ best_loss' = v
                   /\ counter' = 0
             /\ best_file' # best_file => v < best_loss
             /\ (v < best_loss /\ raised' = "none") =>
                   best_file' = << Bundle(epoch, model_state, optim_state, v) >>

\* C11: improvement is strict.  A call whose loss is equal to or greater
\* than the best loss so far leaves best_loss and best_model.pt unchanged and
\* adds exactly 1 to the counter; only a strictly smaller loss updates
\* best_loss, resets the counter to 0 and, when the call returns, has
\* overwritten best_model.pt with the bundle of that call.
C11_StrictImprovement == [][C11Step]_vars

C11_Witness ==
    /\ hist = << 10, 10, 9 >>
    /\ best_loss = 9
    /\ counter = 0
    /\ best_file = << Bundle(2, 3, 3, 9) >>
    /\ pc = "check"

\* ---- C12 (SpecESFree) --------------------------------------------------
SeqMin(h) == CHOOSE x \in { h[i] : i \in 1 .. Len(h) } :
                \A j \in 1 .. Len(h) : x <= h[j]

\* The first call that passed the smallest loss.
FirstBest(h) == CHOOSE i \in 1 .. Len(h) :
                   /\ h[i] = SeqMin(h)
                   /\ \A j \in 1 .. (i - 1) : h[j] # SeqMin(h)

\* C12: after any non-empty sequence of controller calls, calls made after
\* the stop flag was set included, best_loss is the smallest loss passed so
\* far, best_model.pt holds exactly that loss with the epoch of the first
\* call that attained it, and the counter is the number of calls made since
\* that record was written.  A call that raised ended the run; the sequences
\* meant are those whose calls returned.
C12_BestRecordInvariant ==
    (hist # << >> /\ raised = "none") =>
       /\ best_loss = SeqMin(hist)
       /\ best_file # << >>
       /\ BestFileLoss = SeqMin(hist)
       /\ best_file[1].epoch = FirstBest(hist) - 1
       /\ counter = Len(hist) - FirstBest(hist)

C12_Witness ==
    /\ patience = 1
    /\ hist = << 10, 11, 9, 9 >>
    /\ raised = "none"
    /\ early_stop
    /\ best_loss = 9
    /\ best_file = << Bundle(2, 3, 3, 9) >>
    /\ counter = 1

\* ---- C13 (SpecGraph) ---------------------------------------------------
\* The bond of the molecule that joins atoms u and v.
BondBetween(mol, u, v) ==
    CHOOSE k \in 1 .. Len(mol.bonds) :
       {mol.bonds[k].begin, mol.bonds[k].end} = {u, v}

\* C13: for every valid molecule the edge index has as many columns as
\* there are edge-feature rows, and the k-th edge-feature row is the feature
\* vector of the bond whose two endpoints are the k-th column of the edge
\* index, ring-closing bonds included.
C13_EdgeAlignment ==
    (pc = "built" /\ g_data # None) =>
       /\ Len(g_data.edge_index) = Len(g_data.edge_attr)
       /\ \A k \in 1 .. Len(g_data.edge_index) :
             g_data.edge_attr[k] =
                EdgeFeature(g_mol.bonds[BondBetween(g_mol, g_data.edge_index[k][1],
                                                     g_data.edge_index[k][2])])

\* ---- C14 (Spec) --------------------------------------------------------
\* C14: in a run of the driver that starts with no checkpoint directory,
\* every directory a checkpoint is written into exists when the write
\* happens; in particular the directory of best_model.pt exists when the
\* controller first persists the best model, so that save cannot fail for a
\* missing directory.  (A run that starts with the directories in place keeps them.)
C14_DirectoriesCreatedBeforeWrite ==
    /\ best_file # << >> => EarlyStopDir \in dirs
    /\ DOMAIN ckpt_files # {} => CkptDir \in dirs
    /\ raised # "save_failed"

====
